---- MODULE Spec2Model ----
(***************************************************************************)
(* State-machine model of contracts/DonationTracker.sol.                   *)
(*                                                                         *)
(* The storage of the contract, the ether it holds and the event log are   *)
(* the chain state.  Every external function is one action.  withdraw is   *)
(* the only function that calls out of the contract: its payout            *)
(* (msg.sender.call{value: amount}("")) hands control to the caller, who   *)
(* may call back into any function before it returns or fails.  A frame    *)
(* of `stack` is one withdraw waiting for its payout; a failed payout      *)
(* makes require(success) revert the whole call, which restores the chain  *)
(* state saved when the call was entered.                                  *)
(*                                                                         *)
(* paid is the ether the contract has sent to each address and events the  *)
(* total of the WithdrawalMade events per organization; both are chain     *)
(* state and are rolled back by a revert.  last is what a caller sees of   *)
(* the latest call.  All calls of a behaviour run at one block.timestamp.  *)
(* donate uses msg.sender only as the donor it stores, so its callers are  *)
(* drawn from Donors; every other function is called by every address.     *)
(* uint256 arithmetic is far from its limits at these amounts, so the      *)
(* checked overflow of Solidity 0.8 never triggers and is not modelled.    *)
(***************************************************************************)
EXTENDS Integers, Sequences, FiniteSets, TLC

\* ------------------------------------------------------------------ bounds
\* addresses 1..NumAddr call the contract
NumAddr == 2
\* donate is called with success at most MaxDonations times
MaxDonations == 2
\* msg.value of donate ranges over 0..MaxValue
MaxValue == 1
\* the amount of withdraw ranges over 0..MaxAmount
MaxAmount == 2
\* payouts that call back into the contract nest at most MaxDepth deep
MaxDepth == 1

\* address(0)
NullAddr == 0

Addr == 1..NumAddr
AddrArg == 0..NumAddr
Ids == 0..MaxDonations
Values == 0..MaxValue
Amounts == 0..MaxAmount
Donors == {1}
Names == {"", "Alpha Relief"}
MetaCIDs == {"meta"}
Texts == {"desc"}
Messages == {"hi"}
CIDs == {"", "cidXYZ"}

VARIABLES
    owner,               \* address public owner
    nextDonationId,      \* uint256 public nextDonationId
    ngos,                \* mapping(address => NGO)
    donations,           \* mapping(uint256 => Donation)
    pendingWithdrawals,  \* mapping(address => uint256)
    ngoAddresses,        \* address[]
    donationIds,         \* uint256[]
    balance,             \* address(this).balance
    paid,                \* ether each address has received from the contract
    events,              \* the event log: the amounts of WithdrawalMade
    now,                 \* block.timestamp
    stack,               \* withdraw calls waiting for their payout to return
    last                 \* the function that acted last and its revert reason

chain == <<owner, nextDonationId, ngos, donations, pendingWithdrawals,
           ngoAddresses, donationIds, balance, paid, events>>
vars == <<owner, nextDonationId, ngos, donations, pendingWithdrawals,
          ngoAddresses, donationIds, balance, paid, events, now, stack, last>>

\* The zero-initialised struct a mapping returns for a key never written.
NoNGO ==
    [wallet |-> NullAddr, name |-> "", metadataCID |-> "", approved |-> FALSE,
     totalReceived |-> 0, totalWithdrawn |-> 0, description |-> "",
     website |-> "", contact |-> "", exists |-> FALSE]

NoDonation ==
    [id |-> 0, donor |-> NullAddr, ngo |-> NullAddr, amount |-> 0,
     timestamp |-> 0, message |-> "", proofCID |-> ""]

\* Everything a revert rolls back.
ChainState ==
    [owner |-> owner, nextDonationId |-> nextDonationId, ngos |-> ngos,
     donations |-> donations, pendingWithdrawals |-> pendingWithdrawals,
     ngoAddresses |-> ngoAddresses, donationIds |-> donationIds,
     balance |-> balance, paid |-> paid, events |-> events]

\* Only the ledger is put back: the registry, the donations and the owner
\* stay as the reverted call left them.
RestoreLedgerOnly(s) ==
    /\ pendingWithdrawals' = s.pendingWithdrawals
    /\ balance' = s.balance
    /\ paid' = s.paid
    /\ events' = s.events
    /\ ngos' = [o \in AddrArg |->
            [ngos[o] EXCEPT !.totalReceived = s.ngos[o].totalReceived,
                            !.totalWithdrawn = s.ngos[o].totalWithdrawn]]
    /\ UNCHANGED <<owner, nextDonationId, donations, ngoAddresses,
                   donationIds>>

Restore(s) ==
    /\ owner' = s.owner
    /\ nextDonationId' = s.nextDonationId
    /\ ngos' = s.ngos
    /\ donations' = s.donations
    /\ pendingWithdrawals' = s.pendingWithdrawals
    /\ ngoAddresses' = s.ngoAddresses
    /\ donationIds' = s.donationIds
    /\ balance' = s.balance
    /\ paid' = s.paid
    /\ events' = s.events

\* `last` is what the latest call was and how it ended: err is the reason of
\* its revert, "" when it returned; id is the donation an addProof named.
Reverted(op, id, reason) ==
    /\ last' = [op |-> op, id |-> id, err |-> reason]
    /\ UNCHANGED <<chain, now, stack>>

Returned(op, id) == last' = [op |-> op, id |-> id, err |-> ""]

\* ------------------------------------------------------------ constructor
Init ==
    /\ owner = 1
    /\ nextDonationId = 1
    /\ ngos = [a \in AddrArg |-> NoNGO]
    /\ donations = [i \in Ids |-> NoDonation]
    /\ pendingWithdrawals = [a \in AddrArg |-> 0]
    /\ ngoAddresses = <<>>
    /\ donationIds = <<>>
    /\ balance = 0
    /\ paid = [a \in Addr |-> 0]
    /\ events = [WithdrawalMade |-> [a \in Addr |-> 0]]
    /\ now = 1
    /\ stack = <<>>
    /\ last = [op |-> "constructor", id |-> 0, err |-> ""]

\* -------------------------------------------------------------- modifiers
\* The deployer in the place of the owner of line 61.
onlyDeployer(sender) == sender = 1

onlyOwner(sender) == sender = owner

ngoExists(ngoWallet) == ngos[ngoWallet].exists

\* The test of the approved flag of line 77 left out.
onlyApprovedNGOExistsOnly(sender) == ngos[sender].exists

onlyApprovedNGO(sender) == ngos[sender].exists /\ ngos[sender].approved

\* ------------------------------------------------------------ registerNGO
\* The require of line 102 left out.
RegisterNGOErrNoDuplicateCheck(sender, name) ==
    IF ~(Len(name) > 0) THEN "Name cannot be empty"
    ELSE ""

RegisterNGOErr(sender, name) ==
    IF ngos[sender].exists THEN "NGO already registered"
    ELSE IF ~(Len(name) > 0) THEN "Name cannot be empty"
    ELSE ""

\* approved: true in the place of approved: false of line 109.
RegisterNGOApproved(sender, name, metadataCID, description, website, contact) ==
    LET e == RegisterNGOErr(sender, name) IN
    IF e # "" THEN Reverted("registerNGO", 0, e)
    ELSE
        /\ ngos' = [ngos EXCEPT ![sender] =
                [wallet |-> sender, name |-> name, metadataCID |-> metadataCID,
                 approved |-> TRUE, totalReceived |-> 0, totalWithdrawn |-> 0,
                 description |-> description, website |-> website,
                 contact |-> contact, exists |-> TRUE]]
        /\ ngoAddresses' = Append(ngoAddresses, sender)
        /\ Returned("registerNGO", 0)
        /\ UNCHANGED <<owner, nextDonationId, donations, pendingWithdrawals,
                       donationIds, balance, paid, events, now, stack>>

RegisterNGO(sender, name, metadataCID, description, website, contact) ==
    LET e == RegisterNGOErr(sender, name) IN
    IF e # "" THEN Reverted("registerNGO", 0, e)
    ELSE
        /\ ngos' = [ngos EXCEPT ![sender] =
                [wallet |-> sender, name |-> name, metadataCID |-> metadataCID,
                 approved |-> FALSE, totalReceived |-> 0, totalWithdrawn |-> 0,
                 description |-> description, website |-> website,
                 contact |-> contact, exists |-> TRUE]]
        /\ ngoAddresses' = Append(ngoAddresses, sender)
        /\ Returned("registerNGO", 0)
        /\ UNCHANGED <<owner, nextDonationId, donations, pendingWithdrawals,
                       donationIds, balance, paid, events, now, stack>>

\* ------------------------------------------------------------- approveNGO
\* The modifier onlyOwner of line 131 left out.
ApproveNGOErrAnyCaller(sender, ngoWallet) ==
    IF ~ngoExists(ngoWallet) THEN "NGO does not exist"
    ELSE ""

ApproveNGOErr(sender, ngoWallet) ==
    IF ~onlyOwner(sender) THEN "Only owner can call this function"
    ELSE IF ~ngoExists(ngoWallet) THEN "NGO does not exist"
    ELSE ""

\* A revocation that also forfeits the organization's pending balance.
ApproveNGOForfeits(sender, ngoWallet, approved) ==
    LET e == ApproveNGOErr(sender, ngoWallet) IN
    IF e # "" THEN Reverted("approveNGO", 0, e)
    ELSE
        /\ ngos' = [ngos EXCEPT ![ngoWallet].approved = approved]
        /\ pendingWithdrawals' =
                IF approved THEN pendingWithdrawals
                ELSE [pendingWithdrawals EXCEPT ![ngoWallet] = 0]
        /\ Returned("approveNGO", 0)
        /\ UNCHANGED <<owner, nextDonationId, donations, ngoAddresses,
                       donationIds, balance, paid, events, now, stack>>

ApproveNGO(sender, ngoWallet, approved) ==
    LET e == ApproveNGOErr(sender, ngoWallet) IN
    IF e # "" THEN Reverted("approveNGO", 0, e)
    ELSE
        /\ ngos' = [ngos EXCEPT ![ngoWallet].approved = approved]
        /\ Returned("approveNGO", 0)
        /\ UNCHANGED <<owner, nextDonationId, donations, pendingWithdrawals,
                       ngoAddresses, donationIds, balance, paid, events, now,
                       stack>>

\* ----------------------------------------------------------------- donate
\* The require of line 172 left out.
DonateErrNoApproval(ngoWallet, value) ==
    IF ~ngoExists(ngoWallet) THEN "NGO does not exist"
    ELSE IF ~(value > 0) THEN "Donation amount must be greater than 0"
    ELSE ""

DonateErr(ngoWallet, value) ==
    IF ~ngoExists(ngoWallet) THEN "NGO does not exist"
    ELSE IF ~ngos[ngoWallet].approved THEN "NGO is not approved"
    ELSE IF ~(value > 0) THEN "Donation amount must be greater than 0"
    ELSE ""

NewDonation(donationId, sender, ngoWallet, value, message) ==
    [id |-> donationId, donor |-> sender, ngo |-> ngoWallet, amount |-> value,
     timestamp |-> now, message |-> message, proofCID |-> ""]

\* The credit of line 190 left out.
CreditReceivedForgotten(ngoWallet, value) == ngos

\* ngos[ngoWallet].totalReceived += msg.value
CreditReceived(ngoWallet, value) ==
    [ngos EXCEPT ![ngoWallet].totalReceived = @ + value]

\* The credit of line 191 left out.
CreditPendingForgotten(ngoWallet, value) == pendingWithdrawals

\* pendingWithdrawals[ngoWallet] += msg.value
CreditPending(ngoWallet, value) ==
    [pendingWithdrawals EXCEPT ![ngoWallet] = @ + value]

\* ++nextDonationId in place of nextDonationId++.
DonationIdPreIncrement(counter) == counter + 1

\* uint256 donationId = nextDonationId++: the id is the counter's old value
DonationIdOf(counter) == counter

\* A payable call moves msg.value into the contract before the body runs and
\* moves it back when the body reverts.
Donate(sender, ngoWallet, value, message) ==
    LET e == DonateErr(ngoWallet, value) IN
    IF e # "" THEN Reverted("donate", 0, e)
    ELSE
        /\ nextDonationId <= MaxDonations
        /\ nextDonationId' = nextDonationId + 1
        /\ LET donationId == DonationIdOf(nextDonationId) IN
            /\ donations' = [donations EXCEPT ![donationId] =
                    NewDonation(donationId, sender, ngoWallet, value, message)]
            /\ donationIds' = Append(donationIds, donationId)
        /\ ngos' = CreditReceived(ngoWallet, value)
        /\ pendingWithdrawals' = CreditPending(ngoWallet, value)
        /\ balance' = balance + value
        /\ Returned("donate", 0)
        /\ UNCHANGED <<owner, ngoAddresses, paid, events, now, stack>>

\* --------------------------------------------------------------- addProof
\* The require of line 261 left out.
ProofNeverChecked(donationId) == TRUE

ProofIsEmpty(donationId) == Len(donations[donationId].proofCID) = 0

\* The require of line 259 left out.
AddProofErrNoExistenceCheck(sender, donationId) ==
    IF ~onlyApprovedNGO(sender) THEN "NGO not approved"
    ELSE IF ~(donations[donationId].ngo = sender)
        THEN "Only recipient NGO can add proof"
    ELSE IF ~ProofIsEmpty(donationId) THEN "Proof already added"
    ELSE ""

\* The require of line 260 left out.
AddProofErrAnyNGO(sender, donationId) ==
    IF ~onlyApprovedNGO(sender) THEN "NGO not approved"
    ELSE IF ~(donations[donationId].id # 0) THEN "Donation does not exist"
    ELSE IF ~ProofIsEmpty(donationId) THEN "Proof already added"
    ELSE ""

AddProofErr(sender, donationId) ==
    IF ~onlyApprovedNGO(sender) THEN "NGO not approved"
    ELSE IF ~(donations[donationId].id # 0) THEN "Donation does not exist"
    ELSE IF ~(donations[donationId].ngo = sender)
        THEN "Only recipient NGO can add proof"
    ELSE IF ~ProofIsEmpty(donationId) THEN "Proof already added"
    ELSE ""

AddProof(sender, donationId, cid) ==
    LET e == AddProofErr(sender, donationId) IN
    IF e # "" THEN Reverted("addProof", donationId, e)
    ELSE
        /\ donations' = [donations EXCEPT ![donationId].proofCID = cid]
        /\ Returned("addProof", donationId)
        /\ UNCHANGED <<owner, nextDonationId, ngos, pendingWithdrawals,
                       ngoAddresses, donationIds, balance, paid, events, now,
                       stack>>

\* --------------------------------------------------------------- withdraw
\* The require of line 275 left out.
WithdrawErrNoBalanceCheck(sender, amount) ==
    IF ~onlyApprovedNGO(sender) THEN "NGO not approved"
    ELSE IF ~(amount > 0) THEN "Amount must be greater than 0"
    ELSE ""

WithdrawErr(sender, amount) ==
    IF ~onlyApprovedNGO(sender) THEN "NGO not approved"
    ELSE IF ~(amount > 0) THEN "Amount must be greater than 0"
    ELSE IF ~(pendingWithdrawals[sender] >= amount) THEN "Insufficient balance"
    ELSE ""

\* The debit of line 277 left out.
DebitPendingForgotten(sender, amount) == pendingWithdrawals

\* pendingWithdrawals[msg.sender] -= amount
DebitPending(sender, amount) ==
    [pendingWithdrawals EXCEPT ![sender] = @ - amount]

\* The credit of line 278 left out.
DebitWithdrawnForgotten(sender, amount) == ngos

\* ngos[msg.sender].totalWithdrawn += amount
DebitWithdrawn(sender, amount) ==
    [ngos EXCEPT ![sender].totalWithdrawn = @ + amount]

\* emit WithdrawalMade(msg.sender, amount)
WithdrawalMade(sender, amount) ==
    [events EXCEPT !.WithdrawalMade[sender] = @ + amount]

\* The effects of withdraw, and the ether the payout call carries.
DebitAndSend(sender, amount) ==
    /\ pendingWithdrawals' = DebitPending(sender, amount)
    /\ ngos' = DebitWithdrawn(sender, amount)
    /\ balance' = balance - amount
    /\ paid' = [paid EXCEPT ![sender] = @ + amount]
    /\ UNCHANGED <<owner, nextDonationId, donations, ngoAddresses,
                   donationIds, now>>

\* The checks and the effects of withdraw, then the start of the payout: the
\* call moves `amount` to msg.sender and runs msg.sender's code.  A call the
\* contract cannot fund fails at once.  Below MaxDepth msg.sender's code may
\* call back before it returns or fails; at MaxDepth it only accepts the
\* ether or rejects it.
\* The payee's answer is not the one the call was given: the payout ends
\* either way.
WithdrawAnyAnswer(sender, amount, accepts) ==
    LET e == WithdrawErr(sender, amount) IN
    IF e # "" THEN Reverted("withdraw", 0, e)
    ELSE IF balance < amount THEN Reverted("withdraw", 0, "Withdrawal failed")
    ELSE IF Len(stack) < MaxDepth
    THEN /\ DebitAndSend(sender, amount)
         /\ stack' = Append(stack,
                [caller |-> sender, amount |-> amount, saved |-> ChainState])
         /\ last' = [op |-> "payout", id |-> 0, err |-> ""]
         /\ UNCHANGED events
    ELSE \/ /\ DebitAndSend(sender, amount)
            /\ events' = WithdrawalMade(sender, amount)
            /\ Returned("withdraw", 0)
            /\ UNCHANGED stack
         \/ Reverted("withdraw", 0, "Withdrawal failed")

Withdraw(sender, amount, accepts) ==
    LET e == WithdrawErr(sender, amount) IN
    IF e # "" THEN Reverted("withdraw", 0, e)
    ELSE IF balance < amount THEN Reverted("withdraw", 0, "Withdrawal failed")
    ELSE IF Len(stack) < MaxDepth
    THEN /\ DebitAndSend(sender, amount)
         /\ stack' = Append(stack,
                [caller |-> sender, amount |-> amount, saved |-> ChainState])
         /\ last' = [op |-> "payout", id |-> 0, err |-> ""]
         /\ UNCHANGED events
    ELSE IF accepts
    THEN /\ DebitAndSend(sender, amount)
         /\ events' = WithdrawalMade(sender, amount)
         /\ Returned("withdraw", 0)
         /\ UNCHANGED stack
    ELSE Reverted("withdraw", 0, "Withdrawal failed")

Top == stack[Len(stack)]

Pop == SubSeq(stack, 1, Len(stack) - 1)

\* The payout returned success: require(success) passes, the event is emitted.
PayoutReturns ==
    /\ stack # <<>>
    /\ events' = WithdrawalMade(Top.caller, Top.amount)
    /\ stack' = Pop
    /\ Returned("withdraw", 0)
    /\ UNCHANGED <<owner, nextDonationId, ngos, donations, pendingWithdrawals,
                   ngoAddresses, donationIds, balance, paid, now>>

\* The state a failed payout leaves when withdraw does not revert: the call
\* that failed is undone, the debit made before it stays.
DebitKept(f) ==
    [f.saved EXCEPT
        !.pendingWithdrawals[f.caller] = @ - f.amount,
        !.ngos[f.caller].totalWithdrawn = @ + f.amount]

\* The failure is reported, the debit is not reversed.
PayoutFailsUncompensated ==
    /\ stack # <<>>
    /\ Restore(DebitKept(Top))
    /\ stack' = Pop
    /\ last' = [op |-> "withdraw", id |-> 0, err |-> "Withdrawal failed"]
    /\ UNCHANGED now

\* The result of the call is not looked at: withdraw goes on as after success.
PayoutFailsUnchecked ==
    /\ stack # <<>>
    /\ Restore([DebitKept(Top) EXCEPT
            !.events.WithdrawalMade[Top.caller] = @ + Top.amount])
    /\ stack' = Pop
    /\ Returned("withdraw", 0)
    /\ UNCHANGED now

\* The payout returned failure: require(success, "Withdrawal failed") reverts
\* the call, and with it everything done since the call was entered.
PayoutFails ==
    /\ stack # <<>>
    /\ Restore(Top.saved)
    /\ stack' = Pop
    /\ last' = [op |-> "withdraw", id |-> 0, err |-> "Withdrawal failed"]
    /\ UNCHANGED now

\* ------------------------------------------------------ transferOwnership
\* The require of line 306 left out.
TransferOwnershipErrNoZeroCheck(sender, newOwner) ==
    IF ~onlyOwner(sender) THEN "Only owner can call this function"
    ELSE ""

TransferOwnershipErr(sender, newOwner) ==
    IF ~onlyOwner(sender) THEN "Only owner can call this function"
    ELSE IF ~(newOwner # NullAddr) THEN "New owner cannot be zero address"
    ELSE ""

TransferOwnership(sender, newOwner) ==
    LET e == TransferOwnershipErr(sender, newOwner) IN
    IF e # "" THEN Reverted("transferOwnership", 0, e)
    ELSE
        /\ owner' = newOwner
        /\ Returned("transferOwnership", 0)
        /\ UNCHANGED <<nextDonationId, ngos, donations, pendingWithdrawals,
                       ngoAddresses, donationIds, balance, paid, events, now,
                       stack>>

\* ------------------------------------------------------------------ views
\* getNGO and getDonation revert for a key that has no record, and return the
\* stored record otherwise.
getNGOErr(ngoWallet) ==
    IF ~ngoExists(ngoWallet) THEN "NGO does not exist" ELSE ""

getNGO(ngoWallet) == ngos[ngoWallet]

\* The id compared with 0 in the place of the stored record's id of line 206.
getDonationErrZeroOnly(donationId) ==
    IF ~(donationId # 0) THEN "Donation does not exist" ELSE ""

getDonationErr(donationId) ==
    IF ~(donations[donationId].id # 0) THEN "Donation does not exist" ELSE ""

getDonation(donationId) == donations[donationId]

\* getDonationsByNGO walks donationIds twice: once to count the donations of
\* ngoWallet, once to copy their ids into an array of that length. Solidity
\* counts positions from 0, the sequences here from 1.
\* The donor compared in the place of the ngo of lines 228 and 238.
DonationIsFrom(i, ngoWallet) == donations[donationIds[i]].donor = ngoWallet

DonationIsFor(i, ngoWallet) == donations[donationIds[i]].ngo = ngoWallet

RECURSIVE CountFor(_, _)
CountFor(ngoWallet, i) ==
    IF ~(i <= Len(donationIds)) THEN 0
    ELSE (IF DonationIsFor(i, ngoWallet) THEN 1 ELSE 0)
            + CountFor(ngoWallet, i + 1)

RECURSIVE FillFrom(_, _, _, _)
FillFrom(ngoWallet, i, result, index) ==
    IF ~(i <= Len(donationIds)) THEN result
    ELSE IF DonationIsFor(i, ngoWallet)
    THEN FillFrom(ngoWallet, i + 1,
                  [result EXCEPT ![index] = donationIds[i]], index + 1)
    ELSE FillFrom(ngoWallet, i + 1, result, index)

getDonationsByNGO(ngoWallet) ==
    FillFrom(ngoWallet, 1, [j \in 1..CountFor(ngoWallet, 1) |-> 0], 1)

\* The donation records a call of getDonationsByNGO reads: each pass reads
\* donations[donationIds[i]] for every position i.
ScannedBy(ngoWallet) == {donationIds[i] : i \in 1..Len(donationIds)}

getPendingWithdrawal(ngoWallet) == pendingWithdrawals[ngoWallet]

getContractBalance == balance

\* ------------------------------------------------------------------- spec
\* A call that reverts leaves the chain state and the stack exactly as they
\* were (the revert of a withdraw: as they were when it was entered), so a
\* state is reachable through reverted calls only if it is reachable without
\* them.  A behaviour is therefore a sequence of calls that return, ended or
\* not by one call that reverts: calls are made while NoRevert holds.
NoRevert == last.err = ""

\* Any address may call any function, at the top level or, while a payout is
\* running, from inside it.
Next ==
    \/ /\ NoRevert
       /\ \E s \in Addr, n \in Names, m \in MetaCIDs, t \in Texts :
                RegisterNGO(s, n, m, t, t, t)
    \/ /\ NoRevert
       /\ \E s \in Addr, w \in AddrArg, b \in BOOLEAN : ApproveNGO(s, w, b)
    \/ /\ NoRevert
       /\ \E s \in Donors, w \in AddrArg, v \in Values, m \in Messages :
                Donate(s, w, v, m)
    \/ /\ NoRevert
       /\ \E s \in Addr, i \in Ids, c \in CIDs : AddProof(s, i, c)
    \/ /\ NoRevert
       /\ \E s \in Addr, a \in Amounts, k \in BOOLEAN : Withdraw(s, a, k)
    \/ /\ NoRevert
       /\ PayoutReturns
    \/ /\ NoRevert
       /\ PayoutFails
    \/ /\ NoRevert
       /\ \E s \in Addr, o \in AddrArg : TransferOwnership(s, o)

Spec == Init /\ [][Next]_vars

\* ----------------------------------------------------------------- claims
InPayout == stack # <<>>

\* The state at the entry of the outermost withdraw in progress.
Outer == stack[1]

RECURSIVE SumPending(_)
SumPending(S) ==
    IF S = {} THEN 0
    ELSE LET a == CHOOSE x \in S : TRUE
         IN getPendingWithdrawal(a) + SumPending(S \ {a})

\* C1: in every reachable state, the states a call made from inside a payout
\* observes included, every organization's pending balance plus its
\* totalWithdrawn equals its totalReceived.
C1_Conservation ==
    \A o \in AddrArg :
        pendingWithdrawals[o] + ngos[o].totalWithdrawn = ngos[o].totalReceived

\* A donation made from inside the payout of a partial withdraw.
C1_Witness ==
    /\ InPayout
    /\ last.op = "donate" /\ last.err = ""
    /\ ngos[Outer.caller].totalWithdrawn > 0
    /\ pendingWithdrawals[Outer.caller] > 0

\* C2: in every reachable state the ether the contract holds equals the sum
\* of the pending withdrawal balances of all organizations.
C2_CustodyEqualsLiabilities == getContractBalance = SumPending(AddrArg)

\* A withdraw has paid out part of what the contract held.
C2_Witness ==
    /\ last.op = "withdraw" /\ last.err = ""
    /\ getContractBalance > 0
    /\ \E o \in Addr : paid[o] > 0

\* Ether paid out to o, and donated to o, since the outermost withdraw began.
PaidDuring(o) == paid[o] - Outer.saved.paid[o]

DonatedDuring(o) ==
    ngos[o].totalReceived - Outer.saved.ngos[o].totalReceived

\* The debit of the withdraw on top of the stack is in the state its payout
\* starts in.
DebitVisible ==
    (InPayout /\ last.op = "payout") =>
        /\ pendingWithdrawals[Top.caller] =
                Top.saved.pendingWithdrawals[Top.caller] - Top.amount
        /\ ngos[Top.caller].totalWithdrawn =
                Top.saved.ngos[Top.caller].totalWithdrawn + Top.amount

C4_PayoutFailureCompensation ==
    [][(Len(stack') < Len(stack) /\ last'.err # "") =>
            /\ last'.op = "withdraw" /\ last'.err = "Withdrawal failed"
            /\ pendingWithdrawals' = Top.saved.pendingWithdrawals
            /\ ngos'[Top.caller].totalWithdrawn =
                    Top.saved.ngos[Top.caller].totalWithdrawn
            /\ balance' = Top.saved.balance
            /\ paid' = Top.saved.paid
            /\ events' = Top.saved.events]_vars

\* A payout has failed for an organization that has a pending balance.
C4_Witness ==
    /\ last.op = "withdraw" /\ last.err = "Withdrawal failed"
    /\ ~InPayout
    /\ \E o \in Addr :
            /\ onlyApprovedNGO(o)
            /\ pendingWithdrawals[o] > 0
            /\ events.WithdrawalMade[o] = 0

\* C5: between operations every organization's totalWithdrawn is the ether
\* that was paid out to it, and its pending balance is what it received
\* less what was paid out.
C5_NoDebitWithoutPayout ==
    ~InPayout =>
        \A o \in Addr :
            /\ ngos[o].totalWithdrawn = paid[o]
            /\ pendingWithdrawals[o] = ngos[o].totalReceived - paid[o]

\* One payout went through, a later one failed.
C5_Witness ==
    /\ ~InPayout
    /\ last.op = "withdraw" /\ last.err = "Withdrawal failed"
    /\ \E o \in Addr : paid[o] > 0 /\ pendingWithdrawals[o] > 0

\* The state as of the latest point at which no call was in progress: what
\* the transactions that have ended have left.
Committed == IF InPayout THEN Outer.saved ELSE ChainState

DenseIds ==
    /\ nextDonationId = Len(donationIds) + 1
    /\ \A i \in 1..Len(donationIds) :
            donationIds[i] = i /\ donations[i].id = i
    /\ \A i \in Ids :
            (i = 0 \/ i >= nextDonationId) => donations[i] = NoDonation

\* C6: in every state the donations created have the ids 1..n in creation
\* order and nextDonationId is n+1; a donate that fails leaves the counter and
\* the list of ids unchanged; the counter of the committed state never
\* decreases.
C6_DenseDonationIds ==
    /\ []DenseIds
    /\ [][/\ (last'.op = "donate" /\ last'.err # "") =>
                UNCHANGED <<nextDonationId, donationIds, donations>>
          /\ Committed'.nextDonationId >= Committed.nextDonationId]_vars

\* A donate failed after two donations were created.
C6_Witness ==
    /\ last.op = "donate" /\ last.err # ""
    /\ Len(donationIds) >= 2

\* C7 as stated: right after an addProof on donation d has succeeded, an
\* addProof on d fails, whatever proof either call passes, and leaves the
\* stored proof as it is.
C7_AddProofOnce ==
    [][\A d \in Ids :
          (/\ last.op = "addProof" /\ last.err = "" /\ last.id = d
           /\ last'.op = "addProof" /\ last'.id = d) =>
                /\ last'.err # ""
                /\ donations'[d].proofCID = donations[d].proofCID]_vars

Immutable(d) == [d EXCEPT !.proofCID = ""]

\* What may become of a donation record d: e is the same record, but for a
\* proofCID that was empty in d and is not in e.
RecordKept(d, e) ==
    /\ Immutable(e) = Immutable(d)
    /\ e.proofCID = d.proofCID \/ (d.proofCID = "" /\ e.proofCID # "")

\* C8: a donation that exists keeps its id, donor, ngo, amount, timestamp and
\* message, and its proofCID changes only from empty to non-empty: over
\* every step that is not the revert of a withdraw, and from each committed
\* state to the next.
C8_DonationImmutable ==
    [][/\ last'.err # "Withdrawal failed" =>
            \A i \in Ids :
                donations[i].id # 0 => RecordKept(donations[i], donations'[i])
       /\ \A i \in Ids :
            Committed.donations[i].id # 0 =>
                RecordKept(Committed.donations[i], Committed'.donations[i])
      ]_vars

\* An addProof was refused on a donation whose proof is set.
C8_Witness ==
    /\ last.op = "addProof" /\ last.err = "Proof already added"
    /\ donations[last.id].proofCID # ""
    /\ donations[last.id].amount > 0

\* C9: withdraw(amount) by an approved organization with amount above its
\* pending balance fails with "Insufficient balance" and changes nothing: no
\* payout is started, no ether leaves.
C9_WithdrawInsufficient ==
    [][last'.op \in {"withdraw", "payout"} =>
          \A s \in Addr, a \in Amounts, k \in BOOLEAN :
              (/\ onlyApprovedNGO(s)
               /\ a > getPendingWithdrawal(s)
               /\ Withdraw(s, a, k)) =>
                    /\ last' = [op |-> "withdraw", id |-> 0,
                                err |-> "Insufficient balance"]
                    /\ UNCHANGED <<chain, stack>>]_vars

\* An approved organization with a pending balance asked for more.
C9_Witness ==
    /\ last.op = "withdraw" /\ last.err = "Insufficient balance"
    /\ \E o \in Addr : onlyApprovedNGO(o) /\ pendingWithdrawals[o] > 0

\* C10: donate to a registered organization whose approved flag is false
\* fails with "NGO is not approved" and changes nothing: no record, no
\* accumulator, no pending balance, no ether taken.
C10_DonateNotApproved ==
    [][last'.op = "donate" =>
          \A s \in Donors, w \in AddrArg, v \in Values, m \in Messages :
              (/\ ngos[w].exists /\ ~ngos[w].approved
               /\ Donate(s, w, v, m)) =>
                    /\ last' = [op |-> "donate", id |-> 0,
                                err |-> "NGO is not approved"]
                    /\ UNCHANGED <<chain, stack>>]_vars

\* A donation was refused for an organization whose approval was revoked
\* after it had received one.
C10_Witness ==
    /\ last.op = "donate" /\ last.err = "NGO is not approved"
    /\ \E o \in Addr :
            /\ ngos[o].exists /\ ~ngos[o].approved
            /\ ngos[o].totalReceived > 0

\* C11: registerNGO by a caller that already has a record fails with "NGO
\* already registered", whatever the arguments (an empty name included),
\* leaves the caller's record as it is and appends nothing to ngoAddresses.
C11_RegisterTwice ==
    [][last'.op = "registerNGO" =>
          \A s \in Addr, n \in Names, m \in MetaCIDs, t \in Texts :
              (/\ ngos[s].exists
               /\ RegisterNGO(s, n, m, t, t, t)) =>
                    /\ last' = [op |-> "registerNGO", id |-> 0,
                                err |-> "NGO already registered"]
                    /\ ngos'[s] = ngos[s]
                    /\ ngoAddresses' = ngoAddresses
                    /\ UNCHANGED <<chain, stack>>]_vars

\* A second registration was refused for an approved organization that has
\* received a donation.
C11_Witness ==
    /\ last.op = "registerNGO" /\ last.err = "NGO already registered"
    /\ \E o \in Addr : ngos[o].approved /\ ngos[o].totalReceived > 0

\* C12: withdraw by a caller that is not registered, or registered and not
\* approved, fails with "NGO not approved" and changes nothing, whatever its
\* pending balance; ether is paid only to an organization that is registered
\* and approved when the paying step is taken.
C12_WithdrawNeedsApproval ==
    [][/\ last'.op \in {"withdraw", "payout"} =>
            \A s \in Addr, a \in Amounts, k \in BOOLEAN :
                (/\ ~(ngos[s].exists /\ ngos[s].approved)
                 /\ Withdraw(s, a, k)) =>
                      /\ last' = [op |-> "withdraw", id |-> 0,
                                  err |-> "NGO not approved"]
                      /\ UNCHANGED <<chain, stack>>
       /\ \A o \in Addr :
            paid'[o] > paid[o] => ngos[o].exists /\ ngos[o].approved
      ]_vars

\* A withdraw was refused while an organization whose approval was revoked
\* still has a pending balance.
C12_Witness ==
    /\ last.op = "withdraw" /\ last.err = "NGO not approved"
    /\ \E o \in Addr :
            /\ ngos[o].exists /\ ~ngos[o].approved
            /\ pendingWithdrawals[o] > 0

\* C13: on a donation that exists, addProof by a caller that is not its
\* recipient, or is not registered and approved, fails with "NGO not
\* approved" or "Only recipient NGO can add proof" and changes nothing; and
\* a step that changes a proofCID (the revert of a withdraw aside) is an
\* addProof by the donation's recipient, registered and approved.
C13_ProofAuthorization ==
    [][/\ last'.op = "addProof" =>
            \A s \in Addr, i \in Ids, c \in CIDs :
                (/\ donations[i].id # 0
                 /\ ~(/\ s = donations[i].ngo
                      /\ ngos[s].exists /\ ngos[s].approved)
                 /\ AddProof(s, i, c)) =>
                      /\ last'.err \in {"NGO not approved",
                                        "Only recipient NGO can add proof"}
                      /\ UNCHANGED <<chain, stack>>
       /\ last'.err # "Withdrawal failed" =>
            \A i \in Ids :
                donations'[i].proofCID # donations[i].proofCID =>
                    /\ ngos[donations[i].ngo].exists
                    /\ ngos[donations[i].ngo].approved
                    /\ last'.op = "addProof" /\ last'.id = i
                    /\ \E c \in CIDs : AddProof(donations[i].ngo, i, c)
      ]_vars

\* An approved organization was refused on a donation made to another one.
C13_Witness ==
    /\ last.op = "addProof"
    /\ last.err = "Only recipient NGO can add proof"
    /\ donations[last.id].id # 0
    /\ donations[last.id].proofCID = ""

\* C14: approveNGO by a caller that is not the owner fails with "Only owner
\* can call this function" and changes nothing; and a step that changes an
\* approved flag (the revert of a withdraw aside) is a successful approveNGO
\* by the owner of that moment.
C14_ApprovalOwnerOnly ==
    [][/\ last'.op = "approveNGO" =>
            \A s \in Addr, w \in AddrArg, b \in BOOLEAN :
                (s # owner /\ ApproveNGO(s, w, b)) =>
                      /\ last' = [op |-> "approveNGO", id |-> 0,
                                  err |-> "Only owner can call this function"]
                      /\ UNCHANGED <<chain, stack>>
       /\ last'.err # "Withdrawal failed" =>
            \A o \in AddrArg :
                ngos'[o].approved # ngos[o].approved =>
                    /\ last'.op = "approveNGO" /\ last'.err = ""
                    /\ ApproveNGO(owner, o, ngos'[o].approved)
      ]_vars

\* An approveNGO by another caller than the owner was refused while an
\* organization is approved.
C14_Witness ==
    /\ last.op = "approveNGO"
    /\ last.err = "Only owner can call this function"
    /\ \E o \in Addr : ngos[o].exists /\ ngos[o].approved

\* C15: in the state a successful transferOwnership from s to another
\* identity o leaves, approveNGO on a registered organization is refused to s
\* with "Only owner can call this function" and granted to o; and an
\* approveNGO on a registered organization ends as that test says.
C15_ApproveAfterTransfer ==
    [][/\ (last'.op = "transferOwnership" /\ last'.err = "") =>
            \A s \in Addr, o \in AddrArg :
                (TransferOwnership(s, o) /\ o # s) =>
                    \A w \in Addr :
                        ngos'[w].exists =>
                            /\ ApproveNGOErr(s, w)' =
                                    "Only owner can call this function"
                            /\ ApproveNGOErr(o, w)' = ""
       /\ last'.op = "approveNGO" =>
            \A s \in Addr, w \in AddrArg, b \in BOOLEAN :
                (ngos[w].exists /\ ApproveNGO(s, w, b)) =>
                    IF ApproveNGOErr(s, w) = ""
                    THEN last'.err = "" /\ ngos'[w].approved = b
                    ELSE /\ last'.err = "Only owner can call this function"
                         /\ UNCHANGED <<chain, stack>>
      ]_vars

\* The deployer, after it gave ownership away, was refused an approveNGO on
\* a registered organization.
C15_Witness ==
    /\ owner # 1
    /\ last.op = "approveNGO"
    /\ last.err = "Only owner can call this function"
    /\ \E w \in Addr : ngos[w].exists

\* C16: owner is always one of the non-null identities; transferOwnership by
\* a caller that is not the owner, or to the null address, fails and changes
\* nothing; and a step that changes owner (the revert of a withdraw aside) is
\* a successful transferOwnership by the owner of that moment.
C16_OwnerIntegrity ==
    /\ [](owner \in Addr)
    /\ [][/\ last'.op = "transferOwnership" =>
               \A s \in Addr, o \in AddrArg :
                   (/\ s # owner \/ o = NullAddr
                    /\ TransferOwnership(s, o)) =>
                         /\ last'.err \in
                               {"Only owner can call this function",
                                "New owner cannot be zero address"}
                         /\ UNCHANGED <<chain, stack>>
          /\ last'.err # "Withdrawal failed" =>
               (owner' # owner =>
                    /\ last'.op = "transferOwnership" /\ last'.err = ""
                    /\ TransferOwnership(owner, owner'))
         ]_vars

\* The owner, which is no longer the deployer, was refused a transfer to the
\* null address.
C16_Witness ==
    /\ owner # 1
    /\ last.op = "transferOwnership"
    /\ last.err = "New owner cannot be zero address"

\* C17 as stated: while a withdraw is between its debit and the resolution
\* of its payout, no call begins and applies effects: the contract's state
\* stays as the debit left it until the payout returns or fails.
C17_SingleWriter ==
    [][(InPayout /\ Len(stack') = Len(stack)) => UNCHANGED chain]_vars

\* Ether debited by the withdraws in progress whose caller is o.
RECURSIVE InFlightFrom(_, _)
InFlightFrom(o, j) ==
    IF j > Len(stack) THEN 0
    ELSE (IF stack[j].caller = o THEN stack[j].amount ELSE 0)
            + InFlightFrom(o, j + 1)

InFlight(o) == InFlightFrom(o, 1)

\* C18 as stated: whenever they are called, getNGO and getPendingWithdrawal
\* return for every organization a totalWithdrawn and a pending balance that
\* count only the withdraws whose payout has succeeded.
C18_Original ==
    \A o \in Addr :
        getNGOErr(o) = "" =>
            /\ getNGO(o).totalWithdrawn = events.WithdrawalMade[o]
            /\ getPendingWithdrawal(o) =
                    getNGO(o).totalReceived - events.WithdrawalMade[o]

\* C18, amended: when no withdraw is in progress the queries return values
\* that count only the withdraws whose payout has succeeded; a query made
\* from inside a payout returns the values with the debit of each withdraw
\* in progress applied.
C18_QueriesSeeDebit ==
    \A o \in Addr :
        getNGOErr(o) = "" =>
            /\ getNGO(o).totalWithdrawn =
                    events.WithdrawalMade[o] + InFlight(o)
            /\ getPendingWithdrawal(o) =
                    getNGO(o).totalReceived
                        - (events.WithdrawalMade[o] + InFlight(o))
            /\ ~InPayout => InFlight(o) = 0

\* A second withdraw of an organization is in its payout: the queries show
\* its debit on top of the first withdraw, which has succeeded.
C18_Witness ==
    /\ InPayout /\ last.op = "payout"
    /\ events.WithdrawalMade[Top.caller] > 0
    /\ getNGO(Top.caller).totalWithdrawn > events.WithdrawalMade[Top.caller]

\* C19: for every identity o, getDonationsByNGO(o) holds exactly the ids of
\* the donations whose ngo is o, each once, in ascending order; it is empty
\* for an identity with no donation.
C19_DonationsByNGO ==
    \A o \in AddrArg :
        LET r == getDonationsByNGO(o) IN
        /\ {r[j] : j \in 1..Len(r)} =
                {i \in Ids : donations[i].id # 0 /\ donations[i].ngo = o}
        /\ \A j, k \in 1..Len(r) : j < k => r[j] < r[k]
        /\ (\A i \in Ids : donations[i].ngo # o) => r = <<>>

\* Two organizations have one donation each, and the null address none.
C19_Witness ==
    /\ Len(donationIds) = 2
    /\ \E o \in Addr, q \in Addr :
            /\ o # q
            /\ Len(getDonationsByNGO(o)) = 1
            /\ Len(getDonationsByNGO(q)) = 1
    /\ getDonationsByNGO(NullAddr) = <<>>

\* C20 as stated: getDonationsByNGO(o) is answered from an index of o's
\* donation ids, not by a scan: it reads no record of a donation made to
\* another organization.
C20_AnsweredFromIndex ==
    \A o \in AddrArg :
        \A i \in ScannedBy(o) : donations[i].ngo = o

\* C21: in every reachable state every organization's totalWithdrawn is at
\* most its totalReceived and its pending balance is not negative.
C21_WithdrawnAtMostReceived ==
    \A o \in AddrArg :
        /\ ngos[o].totalWithdrawn <= ngos[o].totalReceived
        /\ pendingWithdrawals[o] >= 0

\* An organization has withdrawn all of the two donations it received.
C21_Witness ==
    /\ last.op = "withdraw" /\ last.err = ""
    /\ \E o \in Addr :
            /\ ngos[o].totalReceived = 2
            /\ ngos[o].totalWithdrawn = ngos[o].totalReceived
            /\ pendingWithdrawals[o] = 0

\* Neither accumulator of any organization is lower in n than in m.
Monotone(m, n) ==
    \A o \in AddrArg :
        /\ n[o].totalReceived >= m[o].totalReceived
        /\ n[o].totalWithdrawn >= m[o].totalWithdrawn

\* C22: no organization's totalReceived or totalWithdrawn decreases from one
\* committed state to the next, whatever the call and however it ends (a
\* withdraw whose payout fails included), nor over any step inside a call
\* that is not the revert of a withdraw.
C22_AccumulatorsMonotone ==
    [][/\ Monotone(Committed.ngos, Committed'.ngos)
       /\ last'.err # "Withdrawal failed" => Monotone(ngos, ngos')
      ]_vars

\* The payout of a withdraw has failed for an organization that had
\* withdrawn part of what it received before.
C22_Witness ==
    /\ last.op = "withdraw" /\ last.err = "Withdrawal failed"
    /\ ~InPayout
    /\ \E o \in Addr :
            /\ ngos[o].totalWithdrawn > 0
            /\ ngos[o].totalReceived > ngos[o].totalWithdrawn

\* C24: getDonation(id) returns exactly for the ids from 1 to
\* nextDonationId - 1, and then a record whose id is id; for 0 and for every
\* id not assigned yet it fails with "Donation does not exist".
C24_GetDonation ==
    \A i \in Ids :
        IF 1 <= i /\ i < nextDonationId
        THEN getDonationErr(i) = "" /\ getDonation(i).id = i
        ELSE getDonationErr(i) = "Donation does not exist"

\* One donation exists and the next id is not assigned.
C24_Witness ==
    /\ nextDonationId = 2
    /\ getDonationErr(1) = "" /\ getDonation(1).amount > 0
    /\ getDonationErr(2) # ""

\* The sum of the amounts of the donations with an id in S made to o.
RECURSIVE SumAmounts(_, _)
SumAmounts(o, S) ==
    IF S = {} THEN 0
    ELSE LET i == CHOOSE x \in S : TRUE
         IN (IF donations[i].id # 0 /\ donations[i].ngo = o
             THEN donations[i].amount ELSE 0)
                + SumAmounts(o, S \ {i})

\* C28: in every reachable state every organization's totalReceived is the
\* sum of the amounts of the donations made to it, and every donation that
\* exists has a positive amount and names a registered organization.
C28_LedgerMatchesDonations ==
    /\ \A o \in AddrArg : ngos[o].totalReceived = SumAmounts(o, Ids)
    /\ \A i \in Ids :
            donations[i].id # 0 =>
                /\ donations[i].amount > 0
                /\ ngos[donations[i].ngo].exists

\* Two donations were made to one organization, which has withdrawn part.
C28_Witness ==
    /\ Len(donationIds) = 2
    /\ \E o \in Addr :
            /\ ngos[o].totalReceived = 2
            /\ ngos[o].totalWithdrawn = 1

\* C25 as stated: addProof on a donation id that has no record fails with
\* "Donation does not exist" for every caller, and changes nothing.
C25_Original ==
    [][last'.op = "addProof" =>
          \A s \in Addr, i \in Ids, c \in CIDs :
              (donations[i].id = 0 /\ AddProof(s, i, c)) =>
                    /\ last'.err = "Donation does not exist"
                    /\ UNCHANGED <<chain, stack>>]_vars

\* C25, amended: addProof on a donation id that has no record fails for
\* every caller and changes nothing: with "Donation does not exist" for a
\* registered and approved organization, with "NGO not approved" for every
\* other caller.
C25_AddProofNotFound ==
    [][last'.op = "addProof" =>
          \A s \in Addr, i \in Ids, c \in CIDs :
              (donations[i].id = 0 /\ AddProof(s, i, c)) =>
                    /\ last'.err =
                          IF ngos[s].exists /\ ngos[s].approved
                          THEN "Donation does not exist"
                          ELSE "NGO not approved"
                    /\ UNCHANGED <<chain, stack>>]_vars

\* An approved organization named an id that is not assigned yet.
C25_Witness ==
    /\ last.op = "addProof" /\ last.err = "Donation does not exist"
    /\ last.id >= nextDonationId
    /\ \E o \in Addr : ngos[o].exists /\ ngos[o].approved

\* ngoAddresses lists every registered organization once, and nothing else.
ListedOnce ==
    /\ \A j, k \in 1..Len(ngoAddresses) :
            ngoAddresses[j] = ngoAddresses[k] => j = k
    /\ {ngoAddresses[j] : j \in 1..Len(ngoAddresses)} =
            {o \in AddrArg : ngos[o].exists}

\* C26: a successful registerNGO creates the caller's record with exists
\* true, approved false and zero accumulators and appends the caller to
\* ngoAddresses; the owner can set approved of a registered organization to
\* either value in every state; a record that exists in a committed state
\* exists in the next one, and over every step that is not the revert of a
\* withdraw; ngoAddresses lists each registered organization once.
C26_Lifecycle ==
    /\ [](/\ ListedOnce
          /\ \A o \in AddrArg : ngos[o].exists => ApproveNGOErr(owner, o) = "")
    /\ [][/\ (last'.op = "registerNGO" /\ last'.err = "") =>
               \A s \in Addr, n \in Names, m \in MetaCIDs, t \in Texts :
                   RegisterNGO(s, n, m, t, t, t) =>
                        /\ ~ngos[s].exists /\ ngos'[s].exists
                        /\ ~ngos'[s].approved
                        /\ ngos'[s].totalReceived = 0
                        /\ ngos'[s].totalWithdrawn = 0
                        /\ ngoAddresses' = Append(ngoAddresses, s)
          /\ (last'.op = "approveNGO" /\ last'.err = "") =>
               \A w \in AddrArg, b \in BOOLEAN :
                   ApproveNGO(owner, w, b) => ngos'[w].approved = b
          /\ last'.err # "Withdrawal failed" =>
               \A o \in AddrArg : ngos[o].exists => ngos'[o].exists
          /\ \A o \in AddrArg :
               Committed.ngos[o].exists => Committed'.ngos[o].exists
         ]_vars

\* The approval of an organization that has received a donation was
\* revoked, with both identities registered.
C26_Witness ==
    /\ last.op = "approveNGO" /\ last.err = ""
    /\ Len(ngoAddresses) = 2
    /\ \E o \in Addr :
            /\ ngos[o].exists /\ ~ngos[o].approved
            /\ ngos[o].totalReceived > 0

\* C27 as stated: when a withdraw(amount) by A returns, A's totalWithdrawn
\* is amount above, A's pending balance and the contract's balance amount
\* below, and the ether paid to A amount above what they were when the call
\* was entered, and everything else is as it was then.
C27_WithdrawFrame ==
    [][(Len(stack') < Len(stack) /\ last'.err = "") =>
            LET f == Top
                A == Top.caller
            IN  /\ ngos' = [f.saved.ngos EXCEPT
                                ![A].totalWithdrawn = @ + f.amount]
                /\ pendingWithdrawals' =
                        [f.saved.pendingWithdrawals EXCEPT ![A] = @ - f.amount]
                /\ balance' = f.saved.balance - f.amount
                /\ paid' = [f.saved.paid EXCEPT ![A] = @ + f.amount]
                /\ donations' = f.saved.donations
                /\ nextDonationId' = f.saved.nextDonationId
                /\ owner' = f.saved.owner]_vars

\* C29: a successful approveNGO(w, b) changes ngos[w].approved and nothing
\* else; when it approves an organization that has a pending balance, a
\* withdraw of exactly that balance passes every check of withdraw.
C29_ApproveFrame ==
    [][(last'.op = "approveNGO" /\ last'.err = "") =>
          \A s \in Addr, w \in AddrArg, b \in BOOLEAN :
              ApproveNGO(s, w, b) =>
                    /\ ngos' = [ngos EXCEPT ![w].approved = b]
                    /\ UNCHANGED <<owner, nextDonationId, donations,
                                   pendingWithdrawals, ngoAddresses,
                                   donationIds, balance, paid, events, stack>>
                    /\ (b /\ pendingWithdrawals[w] > 0) =>
                            /\ pendingWithdrawals'[w] = pendingWithdrawals[w]
                            /\ WithdrawErr(w, pendingWithdrawals[w])' = ""
                            /\ balance' >= pendingWithdrawals[w]]_vars

\* An approveNGO has returned, and an approved organization can withdraw
\* the two donations it holds.
C29_Witness ==
    /\ last.op = "approveNGO" /\ last.err = ""
    /\ \E o \in Addr :
            /\ ngos[o].approved
            /\ pendingWithdrawals[o] = 2
            /\ WithdrawErr(o, 2) = ""

\* C30: when the payout of a withdraw fails, the call ends with "Withdrawal
\* failed" and the whole state of the contract is what it was when the call
\* was entered, whatever the calls made from inside the payout have done.
C30_WholeCallRollback ==
    [][last'.err = "Withdrawal failed" =>
          /\ last'.op = "withdraw"
          /\ IF Len(stack') < Len(stack)
             THEN ChainState' = Top.saved /\ stack' = Pop
             ELSE UNCHANGED <<chain, stack>>]_vars

\* A withdraw has failed, and the registry, the donations and the owner are
\* those of the state with one organization and one donation.
C30_Witness ==
    /\ last.op = "withdraw" /\ last.err = "Withdrawal failed"
    /\ ~InPayout
    /\ owner = 1
    /\ Len(ngoAddresses) = 1 /\ Len(donationIds) = 1
    /\ donations[1].proofCID = ""
    /\ pendingWithdrawals[donations[1].ngo] = 1

\* The step taken is a registerNGO, approveNGO, donate, addProof or
\* transferOwnership, and that call, made with that caller and those
\* arguments in the state the step starts in, can end in no other state than
\* g, the state the step ends in.
CallsWithoutPayoutDetermined(g) ==
    /\ last'.op = "registerNGO" =>
            \A s \in Addr, n \in Names, m \in MetaCIDs, t \in Texts :
                RegisterNGO(s, n, m, t, t, t) =>
                    ~ENABLED (RegisterNGO(s, n, m, t, t, t) /\ vars' # g)
    /\ last'.op = "approveNGO" =>
            \A s \in Addr, w \in AddrArg, b \in BOOLEAN :
                ApproveNGO(s, w, b) =>
                    ~ENABLED (ApproveNGO(s, w, b) /\ vars' # g)
    /\ last'.op = "donate" =>
            \A s \in Donors, w \in AddrArg, v \in Values, m \in Messages :
                Donate(s, w, v, m) =>
                    ~ENABLED (Donate(s, w, v, m) /\ vars' # g)
    /\ last'.op = "addProof" =>
            \A s \in Addr, i \in Ids, c \in CIDs :
                AddProof(s, i, c) =>
                    ~ENABLED (AddProof(s, i, c) /\ vars' # g)
    /\ last'.op = "transferOwnership" =>
            \A s \in Addr, o \in AddrArg :
                TransferOwnership(s, o) =>
                    ~ENABLED (TransferOwnership(s, o) /\ vars' # g)

====
